---- MODULE Spec2Model ----
(***************************************************************************)
(* Model of rust/template/types/lib.rs: the array-backed map codec that    *)
(* the macro deserialize_map_from_array! generates (serialize writes the   *)
(* values of a Map as a bare sequence, deserialize rebuilds the Map by     *)
(* re-deriving every key with $kfunc), and the two string append helpers.  *)
(***************************************************************************)
EXTENDS Integers, Sequences, FiniteSets

(* Bounds of the model. *)
NumVals == 2
NumKeys == 2
MaxLen == 3
MaxStrLen == 2

VARIABLES kfunc, map, wire, origin, op, ret, s1, s2, sop, sret

vars == <<kfunc, map, wire, origin, op, ret, s1, s2, sop, sret>>
codecVars == <<kfunc, map, wire, origin, op, ret>>
strVars == <<s1, s2, sop, sret>>

(* $vtype and $ktype: small totally ordered value and key types. *)
Values == 1..NumVals
Keys == 1..NumKeys

(* $kfunc: any total function from values to keys. *)
KFuncs == [Values -> Keys]

(* Result<T, E> of the serde calls. *)
OkSeq(s) == [tag |-> "Ok", seq |-> s]
OkMap(m) == [tag |-> "Ok", map |-> m]
Err(e) == [tag |-> "Err", err |-> e]
NoResult == [tag |-> "None"]

(* The element codec of the serde data format: a value is written as an    *)
(* element token, and an element token that is no written value does not   *)
(* decode.                                                                 *)
EncodeElem(v) == [tag |-> "val", v |-> v]
BadElem == [tag |-> "bad", v |-> 0]
Elems == {EncodeElem(v) : v \in Values} \cup {BadElem}
DecodeElem(e) == IF e.tag = "val" THEN [tag |-> "Ok", v |-> e.v] ELSE Err("MalformedValue")

(* ddlog_std::Map { x: BTreeMap<K, V> }: a function on a finite set of keys. *)
EmptyMap == [k \in {} |-> 0]
Maps == UNION {[D -> Values] : D \in SUBSET Keys}
(* entry(k).or_insert(v): a key already present keeps its value. *)
or_insert(m, k, v) == [x \in (DOMAIN m) \cup {k} |-> IF x \in DOMAIN m THEN m[x] ELSE v]

insert(m, k, v) == [x \in (DOMAIN m) \cup {k} |-> IF x = k THEN v ELSE m[x]]
remove(m, k) == [x \in (DOMAIN m) \ {k} |-> m[x]]

(* The greatest key first: descending iteration. *)
MaxKey(S) == CHOOSE k \in S : \A j \in S : j <= k

MinKey(S) == CHOOSE k \in S : \A j \in S : k <= j

(* map.x.values(): the values in ascending order of their keys. *)
RECURSIVE valuesFrom(_, _)
valuesFrom(m, S) ==
  IF S = {} THEN <<>>
  ELSE LET k == MinKey(S) IN <<m[k]>> \o valuesFrom(m, S \ {k})

(* map.x.keys() in the place of map.x.values(). *)
keys(m) == [i \in 1..Cardinality(DOMAIN m) |-> CHOOSE k \in DOMAIN m : Cardinality({j \in DOMAIN m : j <= k}) = i]

values(m) == valuesFrom(m, DOMAIN m)

(* serializer.collect_seq(iter): every item is written as one element, in  *)
(* iteration order; the serializer's own failure is the call's failure.    *)
collect_seq(serOk, items) ==
  IF serOk THEN OkSeq([i \in 1..Len(items) |-> EncodeElem(items[i])])
  ELSE Err("SerializerError")

serialize(m, serOk) == collect_seq(serOk, values(m))

(* A decoder that skips the elements that do not decode. *)
RECURSIVE VecDeserializeLossy(_, _)
VecDeserializeLossy(input, acc) ==
  IF input = <<>> THEN OkSeq(acc)
  ELSE LET d == DecodeElem(Head(input)) IN
       IF d.tag = "Err" THEN VecDeserializeLossy(Tail(input), acc)
       ELSE VecDeserializeLossy(Tail(input), Append(acc, d.v))

(* A decoder that rejects the empty sequence. *)
RECURSIVE VecDeserializeNonEmpty(_, _)
VecDeserializeNonEmpty(input, acc) ==
  IF input = <<>> THEN (IF acc = <<>> THEN Err("MalformedValue") ELSE OkSeq(acc))
  ELSE LET d == DecodeElem(Head(input)) IN
       IF d.tag = "Err" THEN d
       ELSE VecDeserializeNonEmpty(Tail(input), Append(acc, d.v))

(* Vec::<$vtype>::deserialize: decodes the elements in order and fails at  *)
(* the first one that does not decode.                                     *)
RECURSIVE VecDeserialize(_, _)
VecDeserialize(input, acc) ==
  IF input = <<>> THEN OkSeq(acc)
  ELSE LET d == DecodeElem(Head(input)) IN
       IF d.tag = "Err" THEN d
       ELSE VecDeserialize(Tail(input), Append(acc, d.v))

(* The key derived once, from the first item, and used for every item. *)
keyedByFirst(v) == [i \in 1..Len(v) |-> <<kfunc[v[1]], v[i]>>]

(* The key derived from the item's successor in key space. *)
keyedOffByOne(v) == [i \in 1..Len(v) |-> <<IF kfunc[v[i]] + 1 \in Keys THEN kfunc[v[i]] + 1 ELSE MinKey(Keys), v[i]>>]

(* .map(|item| ($kfunc(&item), item)) *)
keyed(v) == [i \in 1..Len(v) |-> <<kfunc[v[i]], v[i]>>]

(* .collect() into a Map: the pairs are inserted in iteration order into a *)
(* new BTreeMap.                                                           *)
RECURSIVE extend(_, _)
extend(m, pairs) ==
  IF pairs = <<>> THEN m
  ELSE extend(insert(m, Head(pairs)[1], Head(pairs)[2]), Tail(pairs))

(* The pairs inserted into the program's current Map, not into a new one. *)
collectIntoCurrent(pairs) == extend(map, pairs)

collect(pairs) == extend(EmptyMap, pairs)

(* A deserialize that reports a duplicate key as an error. *)
deserializeStrict(input) ==
  LET v == VecDeserialize(input, <<>>) IN
  IF v.tag = "Err" THEN v
  ELSE IF Cardinality({kfunc[v.seq[i]] : i \in 1..Len(v.seq)}) < Len(v.seq) THEN Err("DuplicateKey")
  ELSE OkMap(collect(keyed(v.seq)))

deserialize(input) ==
  LET v == VecDeserialize(input, <<>>) IN
  IF v.tag = "Err" THEN v ELSE OkMap(collect(keyed(v.seq)))

(* String::push_str and the two helpers built on it. *)
Chars == {"a", "b"}
Strings == UNION {[1..n -> Chars] : n \in 0..MaxStrLen}
push_str(buf, s) == buf \o s
string_append_str(a, b) == push_str(a, b)
(* s2 with s1 pushed onto it. *)
string_prepend(a, b) == push_str(b, a)

string_append(a, b) == push_str(a, b)

----
(* The codec: the generated program builds a Map, a serde data format      *)
(* carries the serialized form, and the two codec functions are called.    *)

Init ==
  /\ kfunc \in KFuncs
  /\ map = EmptyMap
  /\ wire = <<>>
  /\ origin = "input"
  /\ op = "none"
  /\ ret = NoResult
  /\ s1 = <<>> /\ s2 = <<>> /\ sop = "none" /\ sret = <<>>

(* The program stores a value under a key of its choice. *)
Put(k, v) ==
  /\ map' = insert(map, k, v)
  /\ map' # map
  /\ origin' = "input"
  /\ op' = "none"
  /\ ret' = NoResult
  /\ UNCHANGED <<kfunc, wire, strVars>>

(* The program removes a key. *)
Remove(k) ==
  /\ k \in DOMAIN map
  /\ map' = remove(map, k)
  /\ origin' = "input"
  /\ op' = "none"
  /\ ret' = NoResult
  /\ UNCHANGED <<kfunc, wire, strVars>>

(* A serialized form arrives from elsewhere, one element at a time. *)
Receive(e) ==
  /\ Len(wire) < MaxLen
  /\ wire' = Append(wire, e)
  /\ origin' = "input"
  /\ op' = "none"
  /\ ret' = NoResult
  /\ UNCHANGED <<kfunc, map, strVars>>

Discard ==
  /\ wire # <<>>
  /\ wire' = <<>>
  /\ origin' = "input"
  /\ op' = "none"
  /\ ret' = NoResult
  /\ UNCHANGED <<kfunc, map, strVars>>

(* serialize(&map, serializer): on success the serializer's output is the  *)
(* serialized form; a serializer that failed leaves none.                  *)
Serialize(serOk) ==
  /\ ret' = serialize(map, serOk)
  /\ op' = "serialize"
  /\ wire' = IF ret'.tag = "Ok" THEN ret'.seq ELSE <<>>
  /\ origin' = IF ret'.tag = "Ok" THEN "serialize" ELSE "input"
  /\ UNCHANGED <<kfunc, map, strVars>>

(* deserialize(deserializer) on the serialized form at hand. *)
Deserialize ==
  /\ ret' = deserialize(wire)
  /\ op' = "deserialize"
  /\ UNCHANGED <<kfunc, map, wire, origin, strVars>>

Next ==
  \/ \E k \in Keys, v \in Values : Put(k, v)
  \/ \E k \in Keys : Remove(k)
  \/ \E e \in Elems : Receive(e)
  \/ Discard
  \/ \E serOk \in BOOLEAN : Serialize(serOk)
  \/ Deserialize

Spec == Init /\ [][Next]_vars

----
(* The string helpers, applied to every pair of bounded strings. *)

InitStr ==
  /\ kfunc = [v \in Values |-> MinKey(Keys)]
  /\ map = EmptyMap
  /\ wire = <<>>
  /\ origin = "input"
  /\ op = "none"
  /\ ret = NoResult
  /\ s1 \in Strings
  /\ s2 \in Strings
  /\ sop = "none"
  /\ sret = <<>>

(* string_append(s1, &s2): s1 is moved in, s2 is borrowed. *)
StringAppend ==
  /\ sret' = string_append(s1, s2)
  /\ sop' = "string_append"
  /\ UNCHANGED <<s1, s2, codecVars>>

(* string_append_str(s1, s2: &str) *)
StringAppendStr ==
  /\ sret' = string_append_str(s1, s2)
  /\ sop' = "string_append_str"
  /\ UNCHANGED <<s1, s2, codecVars>>

NextStr ==
  \/ StringAppend
  \/ StringAppendStr

SpecStr == InitStr /\ [][NextStr]_vars

----
(* Vocabulary of the properties. *)

AllDecode(w) == \A i \in 1..Len(w) : w[i].tag = "val"
DerivedKeys(w) == {kfunc[w[i].v] : i \in 1..Len(w)}
IndicesOf(w, k) == {i \in 1..Len(w) : kfunc[w[i].v] = k}
LastIndexOf(w, k) == CHOOSE i \in IndicesOf(w, k) : \A j \in IndicesOf(w, k) : j <= i
KeyConsistent(m) == \A k \in DOMAIN m : kfunc[m[k]] = k
Rank(m, k) == Cardinality({j \in DOMAIN m : j <= k})
Perms(n) == {p \in [1..n -> 1..n] : \A i, j \in 1..n : p[i] = p[j] => i = j}
Permuted(w, p) == [i \in 1..Len(w) |-> w[p[i]]]
HasCollision(w) == \E i, j \in 1..Len(w) : i < j /\ kfunc[w[i].v] = kfunc[w[j].v]
IsConcat(r, a, b) ==
  /\ Len(r) = Len(a) + Len(b)
  /\ \A i \in 1..Len(a) : r[i] = a[i]
  /\ \A j \in 1..Len(b) : r[Len(a) + j] = b[j]

----
(* C1: round trip. When the map handed to serialize stores every value v   *)
(* under kfunc(v), deserializing the serializer's output succeeds and      *)
(* returns a map with the same key set and the same value under every key. *)
C1_RoundTrip ==
  (op = "deserialize" /\ origin = "serialize" /\ KeyConsistent(map)) =>
    /\ ret.tag = "Ok"
    /\ DOMAIN ret.map = DOMAIN map
    /\ \A k \in DOMAIN map : ret.map[k] = map[k]

C1_Witness ==
  /\ op = "deserialize" /\ origin = "serialize" /\ KeyConsistent(map)
  /\ Cardinality(DOMAIN map) >= 2
  /\ ret = OkMap(map)

(* C2: serialize emits exactly the values of the map, one element per      *)
(* entry, in ascending order of the keys they are stored under, and no key.*)
C2_SerializeAscendingValues ==
  (op = "serialize" /\ ret.tag = "Ok") =>
    /\ wire = ret.seq
    /\ Len(ret.seq) = Cardinality(DOMAIN map)
    /\ \A k \in DOMAIN map : ret.seq[Rank(map, k)] = EncodeElem(map[k])

C2_Witness ==
  /\ op = "serialize" /\ ret.tag = "Ok"
  /\ \E j, k \in DOMAIN map : j < k /\ map[j] > map[k] /\ kfunc[map[j]] # j
  /\ Len(ret.seq) >= 2

(* C3: last write wins. When two or more values of the input derive the    *)
(* same key k, the returned map holds under k the last of them in sequence *)
(* order, and the map has exactly one entry per distinct derived key.      *)
C3_LastWriteWins ==
  (op = "deserialize" /\ AllDecode(wire) /\ HasCollision(wire)) =>
    /\ ret.tag = "Ok"
    /\ DOMAIN ret.map = DerivedKeys(wire)
    /\ Cardinality(DOMAIN ret.map) = Cardinality(DerivedKeys(wire))
    /\ \A k \in DerivedKeys(wire) : ret.map[k] = wire[LastIndexOf(wire, k)].v

C3_Witness ==
  /\ op = "deserialize" /\ AllDecode(wire) /\ ret.tag = "Ok"
  /\ \E i, j \in 1..Len(wire) :
       /\ i < j /\ kfunc[wire[i].v] = kfunc[wire[j].v] /\ wire[i].v # wire[j].v
       /\ j = LastIndexOf(wire, kfunc[wire[j].v])
       /\ ret.map[kfunc[wire[j].v]] = wire[j].v

(* C4: element failure propagation. If any element of the input fails to   *)
(* decode, wherever it sits, deserialize fails with MalformedValue and     *)
(* returns no map, not even one built from the elements before it.         *)
C4_ElementFailurePropagates ==
  (op = "deserialize" /\ ~AllDecode(wire)) =>
    /\ ret = Err("MalformedValue")
    /\ "map" \notin DOMAIN ret

C4_Witness ==
  /\ op = "deserialize" /\ Len(wire) >= 2
  /\ wire[1].tag = "val" /\ wire[Len(wire)].tag = "bad"
  /\ ret = Err("MalformedValue")

(* C5: deserialize fails only if an element fails to decode. For every     *)
(* input whose elements all decode it returns a map, also when several     *)
(* values derive the same key.                                             *)
C5_FailsOnlyOnElementFailure ==
  op = "deserialize" =>
    /\ AllDecode(wire) => ret.tag = "Ok" /\ "map" \in DOMAIN ret
    /\ ret.tag = "Err" => \E i \in 1..Len(wire) : DecodeElem(wire[i]).tag = "Err"

C5_Witness ==
  /\ op = "deserialize" /\ AllDecode(wire) /\ HasCollision(wire)
  /\ Len(wire) = MaxLen
  /\ ret.tag = "Ok"

(* C6: order independence without collisions. When the values of the input *)
(* derive pairwise distinct keys, every permutation of the input           *)
(* deserializes to the same map.                                           *)
C6_OrderIndependence ==
  (op = "deserialize" /\ AllDecode(wire) /\ ~HasCollision(wire)) =>
    \A p \in Perms(Len(wire)) : deserialize(Permuted(wire, p)) = ret

C6_Witness ==
  /\ op = "deserialize" /\ AllDecode(wire) /\ ~HasCollision(wire)
  /\ Len(wire) >= 2 /\ kfunc[wire[1].v] > kfunc[wire[2].v]
  /\ ret.tag = "Ok" /\ Cardinality(DOMAIN ret.map) = Len(wire)

(* C7: empty map. serialize of the empty map yields the empty sequence,    *)
(* and deserialize of the empty sequence succeeds with the empty map.      *)
C7_EmptyMap ==
  /\ (op = "serialize" /\ ret.tag = "Ok" /\ map = EmptyMap) => (ret.seq = <<>> /\ wire = <<>>)
  /\ (op = "deserialize" /\ wire = <<>>) => ret = OkMap(EmptyMap)

C7_Witness ==
  /\ op = "deserialize" /\ origin = "serialize"
  /\ map = EmptyMap /\ wire = <<>>
  /\ ret = OkMap(EmptyMap)

(* C8: the codec holds no state across calls. In every sequence of calls   *)
(* the result of a call is determined by that call's argument alone (the   *)
(* ascending values of the map and the serializer's verdict for serialize, *)
(* the decoded values of the input for deserialize), whatever was called   *)
(* before, and serialize leaves the map it is given unchanged.             *)
KeyOfRank(m, i) == CHOOSE k \in DOMAIN m : Rank(m, k) = i
SerializedFormOf(m) == [i \in 1..Cardinality(DOMAIN m) |-> EncodeElem(m[KeyOfRank(m, i)])]
MapOfInput(w) == [k \in DerivedKeys(w) |-> w[LastIndexOf(w, k)].v]
C8_CallStep ==
  /\ op' = "serialize" =>
       /\ map' = map
       /\ ret' = Err("SerializerError") \/ ret' = OkSeq(SerializedFormOf(map))
  /\ op' = "deserialize" =>
       /\ map' = map /\ wire' = wire
       /\ ret' = IF AllDecode(wire) THEN OkMap(MapOfInput(wire)) ELSE Err("MalformedValue")

C8_NoStateAcrossCalls == [][C8_CallStep]_vars

C8_Witness ==
  /\ op = "deserialize" /\ origin = "serialize" /\ ret.tag = "Ok"
  /\ \E k \in DOMAIN map : k \notin DOMAIN ret.map

(* C9: key invariant of the result. Every entry (k, v) of a map returned   *)
(* by deserialize has k = kfunc(v), and the key set is exactly the set of  *)
(* keys derived from the input's values; so it is for the output of        *)
(* serialize on a map that was keyed otherwise.                            *)
C9_ResultKeyedByDerivedKeys ==
  (op = "deserialize" /\ ret.tag = "Ok") =>
    /\ \A k \in DOMAIN ret.map : kfunc[ret.map[k]] = k
    /\ \A k \in Keys : k \in DOMAIN ret.map <=> \E i \in 1..Len(wire) : kfunc[wire[i].v] = k

C9_Witness ==
  /\ op = "deserialize" /\ origin = "serialize" /\ ret.tag = "Ok"
  /\ ~KeyConsistent(map) /\ map # EmptyMap
  /\ ret.map # map /\ KeyConsistent(ret.map)

(* C10: string_append and string_append_str both return s1 followed by s2  *)
(* (length len(s1) + len(s2), s1 as prefix, s2 as suffix), always return a *)
(* string, leave s2 unchanged, and agree with each other on every input.   *)
C10_AppendStep ==
  sop' # "none" =>
    /\ IsConcat(sret', s1, s2)
    /\ \A i \in 1..Len(sret') : sret'[i] \in Chars
    /\ s2' = s2
    /\ string_append(s1, s2) = string_append_str(s1, s2)

C10_StringAppend == [][C10_AppendStep]_vars

C10_Witness ==
  /\ sop = "string_append"
  /\ Len(s1) >= 1 /\ Len(s2) >= 1 /\ s1[1] # s2[1]
  /\ sret = s1 \o s2

====
